---- MODULE Spec2Model ----
(***************************************************************************)
(* State-machine model of the seedmart backend: the seed table, the        *)
(* append-only seed_price log, the market service (price random walk,      *)
(* price history with its self-healing placeholder and its direct-SQL      *)
(* fallback, the batch price update), the APScheduler interval job and     *)
(* the HTTP handlers that write to the two tables, the market summary,     *)
(* user registration, the error boundary of the routes and the direct      *)
(* database connections.                                                   *)
(*                                                                         *)
(* Units.  Money is counted in mills (1/1000 dollar) so that rounding to   *)
(* two decimals is visible: a whole number of cents is a multiple of Cent. *)
(* Time is counted in seconds since the process was started.               *)
(* Floating point is idealised: products and sums are exact rationals and  *)
(* round(x, 2) rounds the exact value, ties to the even cent.              *)
(***************************************************************************)
EXTENDS Integers, Sequences, FiniteSets, TLC

(* ------------------------------ bounds -------------------------------- *)
\* seeds ever created (ids 1..MaxSeeds); MaxSeeds + 1 is an id never issued
MaxSeeds == 2
\* rows the seed_price log may hold
MaxLog == 3
\* scheduler intervals the clock steps through
MaxShort == 3
\* days after which the clock takes no further long step
MaxDays == 1
\* direct connections that may stay open at a time
MaxConns == 1

(* -------------------------- program constants ------------------------- *)
\* one cent in mills: round(x, 2) yields multiples of Cent
Cent == 10
\* max(0.2, ...) in mills
PriceFloor == 200
\* IntervalTrigger(seconds=30)
IntervalSeconds == 30
\* max_instances=1
MaxInstances == 1
DaySeconds == 86400
\* the long clock steps: within the shortest timeframe, past the default one
LongSteps == {DaySeconds, 8 * DaySeconds}

NoPrice == <<>>

\* request bodies the model sends: JSON price values (mills) and quantities
JsonPrices == {0, 2500}
JsonQuantities == {100}
\* random.random() is drawn as Roll/100; random.uniform(1, 6) as a base price
Rolls == {50}
Trends == {1, -1}
BasePrices == {1000, 6000}
UpdateVolumes == {500}
\* arguments and draws of the direct calls of calculate_price_change
CalcPrices == {1, 5, 15, 194, 195, 200, 205, 995, 2500, 3333, 99990}
CalcRolls == {0, 25, 50, 75, 99}
\* the price of the one seed the pricing runs start with
PriorPrices == {-2500, 10, 200, 2500}
PlaceholderVolumes == {500, 1000}
SeedIds == 1..MaxSeeds
AnyIds == 1..(MaxSeeds + 1)
\* scheduler pool threads and HTTP request threads that run update_seed_prices
Workers == {"w1", "w2"}
Requests == {"r1"}
Procs == Workers \cup Requests
\* HTTP request threads that serve POST /auth/register
Clients == {"q1", "q2"}
\* data.get('username'), data.get('email'), data.get('password'); "" is a
\* missing or empty field
Usernames == {"", "ann", "bob"}
Emails == {"", "ann@x", "bob@x"}
Passwords == {"", "pw"}

VARIABLES
  now,       \* the wall clock, datetime.now()
  seed,      \* the seed table: row id -> [price, quantity]
  log,       \* the seed_price table in insertion (id) order
  proc,      \* one update_seed_prices activation per thread
  nextRun,   \* the job's next_run_time
  execs,     \* scheduled executions started so far
  skipped,   \* scheduler wake-ups skipped because an instance was running
  failed,    \* "failed" once a scheduled execution raised, "recovered" once a later one returned
  completed, \* per seed id: successful runs that had read the seed
  lastWritten, \* per seed id: the row as last written by POST/PUT /seeds
  hist,      \* the GET /seeds/<id>/prices call just answered, if any
  streak,    \* identical price-history calls since the last write
  calc,      \* a call of calculate_price_change: its arguments, draws and result
  summary,   \* the GET /market/summary just answered: seed id -> its entry
  users,     \* the user table in insertion order
  reg,       \* one POST /auth/register activation per request thread
  resp,      \* the answer to the request in which an exception was just raised
  conns      \* direct psycopg2 connections opened and not closed

vars == <<now, seed, log, proc, nextRun, execs, skipped, failed, completed, lastWritten,
          hist, streak, calc, summary, users, reg, resp, conns>>

\* the tables, the clock, the scheduler and the update threads
marketVars == <<now, seed, log, proc, nextRun, execs, skipped, failed, completed,
                lastWritten, hist, streak, calc>>

\* the user table and the registrations in progress
authVars == <<users, reg>>

\* everything outside the market: the answers of the read-only routes and the
\* user table
outerVars == <<summary, authVars, resp, conns>>

(* ------------------------------ helpers ------------------------------- *)
Max(a, b) == IF a >= b THEN a ELSE b

\* no price passes "if new_seed.price:"
TruthyNever(price) == FALSE

\* Python truthiness of seed.price: None and 0 are falsy
Truthy(price) == price # NoPrice /\ price[1] # 0

\* a SeedPrice row; id is the serial primary key, by names the writer
SeedPrice(id, seed_id, price, volume, recorded_at, by) ==
  [id |-> id, seed_id |-> seed_id, price |-> price, volume |-> volume,
   recorded_at |-> recorded_at, by |-> by]

\* rows of a seed, as a set
RowsOf(l, s) == {l[i] : i \in {j \in DOMAIN l : l[j].seed_id = s}}

\* rows the threads in flight will still insert
RECURSIVE Reserved(_)
Reserved(ps) ==
  IF ps = {} THEN 0
  ELSE LET p == CHOOSE x \in ps : TRUE
       IN Len(proc[p].seeds) + Len(proc[p].updates) + Reserved(ps \ {p})

Room(n) == Len(log) + Reserved(Procs) + n <= MaxLog

RECURSIVE Renumber(_, _)
\* the serial ids a batch of new rows gets when inserted after n rows
Renumber(rows, n) ==
  IF rows = <<>> THEN <<>>
  ELSE <<[Head(rows) EXCEPT !.id = n + 1]>> \o Renumber(Tail(rows), n + 1)

(* --------------------------- pricing engine --------------------------- *)
\* nearest integer to n/d (d > 0), ties to even
RoundHalfEven(n, d) ==
  LET q == n \div d
      r == n % d
  IN IF 2 * r < d THEN q
     ELSE IF 2 * r > d THEN q + 1
     ELSE IF q % 2 = 0 THEN q ELSE q + 1

\* change = (random() - 0.5) * volatility + trend * 0.02, in units of 1e-4,
\* with random() = roll/100 and volatility = 0.02
PriceChange(trend, roll) == (roll - 50) * 2 + trend * 200

\* calculate_price_change with the floor forgotten: p + p * change, rounded
calculate_price_change_nofloor(current_price, trend, roll) ==
  LET raw == current_price * 10000 + current_price * PriceChange(trend, roll)
  IN RoundHalfEven(raw, 10000 * Cent) * Cent

\* calculate_price_change: max(0.2, p + p * change) rounded to 2 decimals
calculate_price_change(current_price, trend, roll) ==
  LET raw == current_price * 10000 + current_price * PriceChange(trend, roll)
      new_price == Max(PriceFloor * 10000, raw)
  IN RoundHalfEven(new_price, 10000 * Cent) * Cent

\* no GET /seeds/<id>/prices answer is at hand: none was given yet, or a write
\* has happened since
NoCall ==
  [seed_id |-> 0, timeframe |-> "", path |-> "none", result |-> <<>>,
   status |-> 0, pre |-> 0, stored |-> NoPrice]
\* no call of calculate_price_change is on record
NoCalc == [current_price |-> 0, trend |-> 0, roll |-> 0, done |-> FALSE, result |-> 0]
\* no price-history call was made since the last write
NoStreak == [seed_id |-> 0, timeframe |-> "", added |-> 0]

(* ------------------------------- clock -------------------------------- *)
Advance(d) ==
  /\ \/ d = IntervalSeconds /\ now \div IntervalSeconds < MaxShort
     \/ d \in LongSteps /\ now \div DaySeconds < MaxDays
  /\ now' = now + d
  /\ hist' = NoCall
  /\ UNCHANGED <<outerVars, seed, log, proc, nextRun, execs, skipped, failed, completed,
                 lastWritten, streak, calc>>

(* ------------------------------- CRUD --------------------------------- *)
\* POST /seeds with body {price, quantity}; price = NoPrice when the key is absent
create_seed(price, quantity) ==
  /\ Len(seed) < MaxSeeds
  /\ Truthy(price) => Room(1)
  /\ seed' = Append(seed, [price |-> price, quantity |-> quantity])
  /\ log' = IF Truthy(price)
            THEN Append(log, SeedPrice(Len(log) + 1, Len(seed) + 1, price[1],
                                       quantity, now, "crud"))
            ELSE log
  /\ lastWritten' = Append(lastWritten, [price |-> price, quantity |-> quantity])
  /\ hist' = NoCall /\ streak' = NoStreak
  /\ UNCHANGED <<outerVars, now, proc, nextRun, execs, skipped, failed, completed, calc>>

\* PUT /seeds/<id> with body {price?, quantity?}; NoPrice / <<>> = key absent
update_seed(id, price, quantity) ==
  /\ id \in DOMAIN seed
  /\ LET q == IF quantity = <<>> THEN seed[id].quantity ELSE quantity[1]
         changed == price # NoPrice /\ price # seed[id].price
     IN /\ changed => Room(1)
        /\ seed' = [seed EXCEPT ![id] =
                      [price |-> IF changed THEN price ELSE seed[id].price,
                       quantity |-> q]]
        /\ log' = IF changed
                  THEN Append(log, SeedPrice(Len(log) + 1, id, price[1], q, now, "crud"))
                  ELSE log
        /\ lastWritten' = [lastWritten EXCEPT ![id] =
                             [price |-> IF price # NoPrice THEN price ELSE @.price,
                              quantity |-> q]]
  /\ hist' = NoCall /\ streak' = NoStreak
  /\ UNCHANGED <<outerVars, now, proc, nextRun, execs, skipped, failed, completed, calc>>

\* a direct call MarketService.calculate_price_change(current_price)
price_change ==
  /\ ~calc.done
  /\ calc' = [calc EXCEPT !.done = TRUE,
                          !.result = calculate_price_change(calc.current_price,
                                                            calc.trend, calc.roll)]
  /\ UNCHANGED <<outerVars, now, seed, log, proc, nextRun, execs, skipped, failed, completed,
                 lastWritten, hist, streak>>

(* --------------------------- price history ---------------------------- *)
Timeframes == {"1d", "1w"}
\* where a database call of get_price_history may raise
Faults == {"none", "seed_query", "price_query", "commit"}
\* the direct-SQL fallback: no DATABASE_URL, connect/execute raises, or it works
Fallbacks == {"no_url", "sql_error", "ok"}

\* timeframe_days.get(timeframe, 7)
TimeframeDays(timeframe) ==
  CASE timeframe = "1d" -> 1
    [] timeframe = "1w" -> 7
    [] timeframe = "1m" -> 30
    [] timeframe = "3m" -> 90
    [] timeframe = "1y" -> 365
    [] OTHER -> 7

\* ORDER BY recorded_at: every listing of the rows with non-decreasing
\* timestamps (the database orders rows of equal timestamp as it likes)
OrderByRecordedAt(rows) ==
  {q \in [1..Cardinality(rows) -> rows] :
     /\ \A i, j \in DOMAIN q : i < j => q[i] # q[j] /\ q[i].recorded_at <= q[j].recorded_at}

\* the primary query: rows of the seed with recorded_at >= cutoff_date, ordered
PrimaryQuery(seed_id, cutoff_date) ==
  OrderByRecordedAt({r \in RowsOf(log, seed_id) : r.recorded_at >= cutoff_date})

\* the fallback query: SELECT ... WHERE seed_id = %s ORDER BY recorded_at
FallbackQuery(seed_id) == OrderByRecordedAt(RowsOf(log, seed_id))

\* Seed.query.get(seed_id) with the wrong test: every id passes
SeedFoundAlways(seed_id) == TRUE

\* seed = Seed.query.get(seed_id); "if not seed: return []"
SeedFound(seed_id) == seed_id \in DOMAIN seed

\* the price column of the seed row that was read
StoredPrice(seed_id) == IF seed_id \in DOMAIN seed THEN seed[seed_id].price ELSE NoPrice

\* the placeholder handed back without db.session.add / commit
PersistForgotten(rows, new_price) == rows

\* db.session.add(new_price); db.session.commit()
Persist(rows, new_price) == Append(rows, new_price)

\* seed.price or MarketService.calculate_base_price()
PlaceholderPrices(price) == IF Truthy(price) THEN {price[1]} ELSE BasePrices

\* the answer of the route, with what the call found: the seed's row count
\* and stored price before it
Answer(seed_id, timeframe, path, result) ==
  [seed_id |-> seed_id, timeframe |-> timeframe, path |-> path,
   result |-> result, status |-> 200,
   pre |-> Cardinality(RowsOf(log, seed_id)),
   stored |-> StoredPrice(seed_id)]

\* the placeholders added by the run of identical calls (same seed id and
\* timeframe, no write in between) that this call extends or starts
Streak(seed_id, timeframe, added) ==
  LET same == streak.seed_id = seed_id /\ streak.timeframe = timeframe
      total == (IF same THEN streak.added ELSE 0) + added
  IN IF total = 0 THEN NoStreak
     ELSE [seed_id |-> seed_id, timeframe |-> timeframe, added |-> total]

\* the except branch of the primary path: the direct connection
\* a connection that is not closed when its operation returns: psycopg2
\* closes it when the object is reclaimed, which may be then or later
Abandoned == {conns} \cup (IF conns < MaxConns THEN {conns + 1} ELSE {})

Fallback(seed_id, timeframe) ==
  /\ \E fallback \in Fallbacks :
       \/ /\ fallback = "no_url"
          /\ hist' = Answer(seed_id, timeframe, "fallback_failed", <<>>)
          /\ conns' = conns
       \/ /\ fallback = "sql_error"
          /\ hist' = Answer(seed_id, timeframe, "fallback_failed", <<>>)
          /\ conns' \in Abandoned
       \/ /\ fallback = "ok"
          /\ \E result \in FallbackQuery(seed_id) :
               hist' = Answer(seed_id, timeframe, "fallback", result)
          /\ conns' = conns
  /\ log' = log

\* GET /seeds/<seed_id>/prices?timeframe=...: MarketService.get_price_history
\* behind the route, which answers 200 with the list (empty or not)
get_seed_prices(seed_id, timeframe, fault) ==
  LET cutoff_date == now - TimeframeDays(timeframe) * DaySeconds
  IN /\ IF fault = "seed_query"
        THEN \* Seed.query.get raises: the outer except returns []
             /\ hist' = Answer(seed_id, timeframe, "error", <<>>)
             /\ log' = log
             /\ conns' = conns
        ELSE IF ~SeedFound(seed_id)
        THEN /\ hist' = Answer(seed_id, timeframe, "missing", <<>>)
             /\ log' = log
             /\ conns' = conns
        ELSE IF fault = "price_query"
        THEN Fallback(seed_id, timeframe)
        ELSE IF \E r \in RowsOf(log, seed_id) : r.recorded_at >= cutoff_date
        THEN /\ \E prices \in PrimaryQuery(seed_id, cutoff_date) :
                  hist' = Answer(seed_id, timeframe, "found", prices)
             /\ log' = log
             /\ conns' = conns
        ELSE IF fault = "commit"
        THEN Fallback(seed_id, timeframe)
        ELSE /\ Room(1)
             /\ \E price \in PlaceholderPrices(StoredPrice(seed_id)),
                   volume \in PlaceholderVolumes :
                  LET new_price == SeedPrice(Len(log) + 1, seed_id, price, volume,
                                             now, "placeholder")
                  IN /\ log' = Persist(log, new_price)
                     /\ hist' = Answer(seed_id, timeframe, "placeholder", <<new_price>>)
             /\ conns' = conns
     /\ streak' = Streak(seed_id, timeframe, Len(log') - Len(log))
     /\ UNCHANGED <<summary, authVars, resp, now, seed, proc, nextRun, execs, skipped, failed, completed,
                    lastWritten, calc>>

(* --------------------------- market update ---------------------------- *)
\* a thread outside update_seed_prices: what its last run returned, and the
\* number of seeds that run had read
Idle(ret, snap) ==
  [pc |-> "idle", seeds |-> <<>>, updates |-> <<>>, snap |-> snap, ret |-> ret]
NoReturn == [status |-> "none", updates |-> 0]

\* SeedPrice.query.filter_by(seed_id=s).order_by(recorded_at.desc()).first():
\* any row of the seed with the greatest timestamp (the database picks among ties)
LatestRows(l, s) ==
  {r \in RowsOf(l, s) : \A o \in RowsOf(l, s) : o.recorded_at <= r.recorded_at}

\* seeds = Seed.query.all(); updates = []
UpdateBegin(p) ==
  [pc |-> "run", seeds |-> [i \in 1..Len(seed) |-> i], updates |-> <<>>,
   snap |-> Len(seed), ret |-> NoReturn]

\* the price of the new row for seed s, given the draws of the random source
NewPrices(s) ==
  IF LatestRows(log, s) # {}
  THEN {calculate_price_change(latest.price, trend, roll) :
          latest \in LatestRows(log, s), trend \in Trends, roll \in Rolls}
  ELSE BasePrices

\* the loop with rows built only for seeds that have a row already
update_loop_only_priced(p) ==
  /\ proc[p].pc = "run"
  /\ proc[p].seeds # <<>>
  /\ LET s == Head(proc[p].seeds)
     IN IF LatestRows(log, s) = {}
        THEN proc' = [proc EXCEPT ![p].seeds = Tail(@)]
        ELSE \E new_price \in NewPrices(s), new_volume \in UpdateVolumes :
               proc' = [proc EXCEPT ![p].seeds = Tail(@),
                                    ![p].updates = Append(@, SeedPrice(0, s, new_price,
                                                       new_volume, now, "update"))]
  /\ UNCHANGED <<outerVars, now, seed, log, nextRun, execs, skipped, failed, completed,
                 lastWritten, hist, streak, calc>>

\* the loop with each new row stamped like the latest row of its seed
update_loop_backdated(p) ==
  /\ proc[p].pc = "run"
  /\ proc[p].seeds # <<>>
  /\ LET s == Head(proc[p].seeds)
     IN \E new_price \in NewPrices(s), new_volume \in UpdateVolumes,
           recorded_at \in {now} \cup {r.recorded_at : r \in LatestRows(log, s)} :
          /\ LatestRows(log, s) # {} => recorded_at # now
          /\ proc' = [proc EXCEPT ![p].seeds = Tail(@),
                                  ![p].updates = Append(@, SeedPrice(0, s, new_price,
                                                     new_volume, recorded_at, "update"))]
  /\ UNCHANGED <<outerVars, now, seed, log, nextRun, execs, skipped, failed, completed,
                 lastWritten, hist, streak, calc>>

\* one iteration of "for seed in seeds"
update_loop(p) ==
  /\ proc[p].pc = "run"
  /\ proc[p].seeds # <<>>
  /\ LET s == Head(proc[p].seeds)
     IN \E new_price \in NewPrices(s), new_volume \in UpdateVolumes :
          proc' = [proc EXCEPT ![p].seeds = Tail(@),
                               ![p].updates = Append(@, SeedPrice(0, s, new_price,
                                                  new_volume, now, "update"))]
  /\ UNCHANGED <<outerVars, now, seed, log, nextRun, execs, skipped, failed, completed,
                 lastWritten, hist, streak, calc>>

\* the commit with seed.price set to the new price of each row as well
update_commit_sync(p) ==
  /\ proc[p].pc = "run"
  /\ proc[p].seeds = <<>>
  /\ log' = log \o Renumber(proc[p].updates, Len(log))
  /\ seed' = [s \in DOMAIN seed |->
               IF \E i \in DOMAIN proc[p].updates : proc[p].updates[i].seed_id = s
               THEN [seed[s] EXCEPT !.price =
                       <<(CHOOSE r \in {proc[p].updates[i] : i \in DOMAIN proc[p].updates} :
                            r.seed_id = s).price>>]
               ELSE seed[s]]
  /\ proc' = [proc EXCEPT ![p] =
                Idle([status |-> "ok", updates |-> Len(proc[p].updates)], proc[p].snap)]
  /\ completed' = [s \in SeedIds |->
                     completed[s] + (IF s <= proc[p].snap THEN 1 ELSE 0)]
  /\ hist' = NoCall /\ streak' = NoStreak
  /\ failed' = IF p \in Workers /\ failed = "failed" THEN "recovered" ELSE failed
  /\ UNCHANGED <<outerVars, now, nextRun, execs, skipped, lastWritten, calc>>

\* db.session.bulk_save_objects(updates); db.session.commit(); return len(updates)
update_commit(p) ==
  /\ proc[p].pc = "run"
  /\ proc[p].seeds = <<>>
  /\ log' = log \o Renumber(proc[p].updates, Len(log))
  /\ proc' = [proc EXCEPT ![p] =
                Idle([status |-> "ok", updates |-> Len(proc[p].updates)], proc[p].snap)]
  /\ completed' = [s \in SeedIds |->
                     completed[s] + (IF s <= proc[p].snap THEN 1 ELSE 0)]
  /\ hist' = NoCall /\ streak' = NoStreak
  /\ failed' = IF p \in Workers /\ failed = "failed" THEN "recovered" ELSE failed
  /\ UNCHANGED <<outerVars, now, seed, nextRun, execs, skipped, lastWritten, calc>>

\* a query or the commit raises: the transaction is rolled back when the
\* context is torn down; the job wrapper logs, the route answers 500
update_raise_partial(p) ==
  /\ proc[p].pc = "run"
  /\ log' = log \o Renumber(proc[p].updates, Len(log))
  /\ proc' = [proc EXCEPT ![p] = Idle([status |-> "error", updates |-> 0], proc[p].snap)]
  /\ failed' = IF p \in Workers THEN "failed" ELSE failed
  /\ UNCHANGED <<outerVars, now, seed, nextRun, execs, skipped, completed, lastWritten, hist,
                 streak, calc>>

update_raise(p) ==
  /\ proc[p].pc = "run"
  /\ proc' = [proc EXCEPT ![p] = Idle([status |-> "error", updates |-> 0], proc[p].snap)]
  /\ failed' = IF p \in Workers THEN "failed" ELSE failed
  /\ UNCHANGED <<outerVars, now, seed, log, nextRun, execs, skipped, completed, lastWritten,
                 hist, streak, calc>>

\* POST /market/update: the request thread enters update_seed_prices
update_market(r) ==
  /\ proc[r].pc = "idle"
  /\ Room(Len(seed))
  /\ proc' = [proc EXCEPT ![r] = UpdateBegin(r)]
  /\ UNCHANGED <<outerVars, now, seed, log, nextRun, execs, skipped, failed, completed,
                 lastWritten, hist, streak, calc>>

(* --------------------------- market summary --------------------------- *)
NoSummary == <<>>

\* .order_by(SeedPrice.recorded_at.desc()).offset(1).first(): a row that can
\* come second, newest first; as a sequence, empty when there is none
PreviousRows(l, s) ==
  {<<r>> : r \in {x \in RowsOf(l, s) :
                    \E first \in LatestRows(l, s) \ {x} :
                      \A o \in RowsOf(l, s) \ {first} : o.recorded_at <= x.recorded_at}}

PreviousPrice(l, s) == IF PreviousRows(l, s) = {} THEN {<<>>} ELSE PreviousRows(l, s)

\* the previous price taken as 0 when there is no previous row
PreviousPriceValueZero(previous_price, current_price) ==
  IF previous_price # <<>> THEN previous_price[1].price ELSE 0

\* previous_price.price if previous_price else current_price
PreviousPriceValue(previous_price, current_price) ==
  IF previous_price # <<>> THEN previous_price[1].price ELSE current_price

\* one element of summaries; change in mills, changePercent in tenths of a
\* percent; observations is the number of rows the seed had at the call
SummaryEntry(s, latest_price, previous_price) ==
  LET current_price == latest_price.price
      previous_price_value == PreviousPriceValue(previous_price, current_price)
      change == RoundHalfEven(current_price - previous_price_value, Cent) * Cent
      change_percent == IF previous_price_value > 0
                        THEN RoundHalfEven(change * 1000, previous_price_value)
                        ELSE 0
  IN [id |-> s, currentPrice |-> current_price, previousPrice |-> previous_price_value,
      change |-> change, changePercent |-> change_percent,
      volume |-> latest_price.volume,
      observations |-> Cardinality(RowsOf(log, s))]

SummaryEntries(s) ==
  {SummaryEntry(s, latest_price, previous_price) :
     latest_price \in LatestRows(log, s), previous_price \in PreviousPrice(log, s)}

\* "if latest_price:": the seeds that get an entry
Listed == {s \in DOMAIN seed : RowsOf(log, s) # {}}

\* GET /market/summary: MarketService.get_market_summary
get_market_summary ==
  /\ \E summaries \in [Listed -> UNION {SummaryEntries(s) : s \in Listed}] :
       /\ \A s \in Listed : summaries[s] \in SummaryEntries(s)
       /\ summary' = summaries
  /\ UNCHANGED <<marketVars, authVars, resp, conns>>

(* ---------------------------- registration ---------------------------- *)
\* a request thread outside register: the status it last answered with
Answered(data, status) == [pc |-> "idle", data |-> data, status |-> status]

NoData == [username |-> "", email |-> "", password |-> ""]

\* the username test left out: no username is ever found
UsernameExistsNever(username) == FALSE

\* User.query.filter_by(username=data['username']).first()
UsernameExists(username) == \E i \in DOMAIN users : users[i].username = username

\* User.query.filter_by(email=data['email']).first()
EmailExists(email) == \E i \in DOMAIN users : users[i].email = email

\* the unique constraints of the user table on username and on email, which
\* make db.session.commit() raise
UniqueViolation(data) ==
  \E i \in DOMAIN users :
    users[i].username = data.username \/ users[i].email = data.email

\* POST /auth/register up to the username test: 400 when a required field
\* is missing or the username exists
register(q, data) ==
  /\ reg[q].pc = "idle"
  /\ reg' = [reg EXCEPT ![q] =
               IF data.username = "" \/ data.email = "" \/ data.password = ""
               THEN Answered(data, 400)
               ELSE IF UsernameExists(data.username)
               THEN Answered(data, 400)
               ELSE [pc |-> "email", data |-> data, status |-> 0]]
  /\ UNCHANGED <<marketVars, summary, resp, conns, users>>

\* the email test: 400 when the email exists
register_email(q) ==
  /\ reg[q].pc = "email"
  /\ reg' = [reg EXCEPT ![q] =
               IF EmailExists(reg[q].data.email)
               THEN Answered(reg[q].data, 400)
               ELSE [reg[q] EXCEPT !.pc = "commit"]]
  /\ UNCHANGED <<marketVars, summary, resp, conns, users>>

\* db.session.add(new_user); db.session.commit(): 201, or rollback and 500
\* when the commit raises
register_commit(q, fault) ==
  /\ reg[q].pc = "commit"
  /\ IF fault \/ UniqueViolation(reg[q].data)
     THEN /\ users' = users
          /\ reg' = [reg EXCEPT ![q] = Answered(reg[q].data, 500)]
     ELSE /\ users' = Append(users, [username |-> reg[q].data.username,
                                      email |-> reg[q].data.email])
          /\ reg' = [reg EXCEPT ![q] = Answered(reg[q].data, 201)]
  /\ UNCHANGED <<marketVars, summary, resp, conns>>

(* --------------------------- error boundary --------------------------- *)
\* the view functions of routes/api.py, routes/auth.py and app.py
Routes ==
  {"get_seeds", "get_seed", "get_seed_prices", "get_seed_latest_price",
   "get_market_summary", "update_market", "create_seed", "update_seed", "delete_seed",
   "get_seed_price_history", "register", "login", "get_user_info", "refresh",
   "get_price_history"}

\* what can raise inside a view function: a storage call, or the use of the
\* request body (data['name'] on a body without it, data.get on no body)
Raised == {"storage", "body"}

\* the view functions that read request.json
ReadsBody == {"create_seed", "update_seed", "register", "login"}

\* the view functions whose whole body is inside try / except Exception
Guarded ==
  {"get_seed_prices", "update_market", "get_seed_price_history", "register",
   "get_price_history"}

NoResp == [route |-> "", raised |-> "", status |-> 0, body |-> ""]

\* the answer to a request in whose view function an exception is raised:
\* the except branch answers 500 with {"error": ...}; MarketService
\* .get_price_history catches storage errors itself and the route answers
\* 200 with a list; elsewhere the exception leaves the view function and
\* Flask answers 500 with its HTML page
Boundary(route, raised) ==
  IF route = "get_seed_prices" /\ raised = "storage"
  THEN [route |-> route, raised |-> raised, status |-> 200, body |-> "list"]
  ELSE IF route \in Guarded
  THEN [route |-> route, raised |-> raised, status |-> 500, body |-> "error"]
  ELSE [route |-> route, raised |-> raised, status |-> 500, body |-> "html"]

\* a request to a route in whose view function an exception is raised; what
\* the request had written is not committed
raises(route, raised) ==
  /\ raised = "body" => route \in ReadsBody
  /\ resp' = Boundary(route, raised)
  /\ UNCHANGED <<marketVars, summary, authVars, conns>>

(* -------------------------- direct connection ------------------------- *)
\* what can fail in the handler: get_db_connection (no URL, or connect
\* raises: it returns None), a cur.execute or the formatting of a row
DirectFaults == {"none", "connect", "query"}

\* GET /api/price-history/<product_id> of app.py, over its own connection
get_price_history(product_id, fault) ==
  /\ IF fault = "connect"
     THEN /\ resp' = [route |-> "get_price_history", raised |-> fault,
                      status |-> 500, body |-> "error"]
          /\ conns' = conns
     ELSE IF fault = "query"
     THEN \* except Exception: the answer is built without conn.close()
          /\ resp' = [route |-> "get_price_history", raised |-> fault,
                      status |-> 500, body |-> "error"]
          /\ conns' \in Abandoned
     ELSE IF product_id \notin DOMAIN seed
     THEN \* cur.close(); conn.close()
          /\ resp' = [route |-> "get_price_history", raised |-> fault,
                      status |-> 404, body |-> "error"]
          /\ conns' = conns
     ELSE \* cur.close(); conn.close()
          /\ resp' = [route |-> "get_price_history", raised |-> fault,
                      status |-> 200, body |-> "list"]
          /\ conns' = conns
  /\ UNCHANGED <<marketVars, summary, authVars>>

(* ----------------------------- scheduler ------------------------------ *)
Running == {w \in Workers : proc[w].pc # "idle"}

\* coalesce=False: the first due run time is taken, the others stay due
RunTimeUncoalesced == nextRun

\* the due run times nextRun, nextRun + interval, ... up to now; coalesce=True
\* keeps only the last of them (run_times[-1:]), computed here directly
RunTime == nextRun + ((now - nextRun) \div IntervalSeconds) * IntervalSeconds

\* IntervalTrigger.get_next_fire_time(previous_fire_time, now)
NextFireTime(previous) == previous + IntervalSeconds

\* the submission without the check of the running instances
SchedSubmitUnguarded(w) ==
  /\ now >= nextRun
  /\ proc[w].pc = "idle"
  /\ Room(Len(seed))
  /\ proc' = [proc EXCEPT ![w] = UpdateBegin(w)]
  /\ execs' = execs + 1
  /\ nextRun' = NextFireTime(RunTime)
  /\ UNCHANGED <<outerVars, now, seed, log, skipped, failed, completed, lastWritten, hist,
                 streak, calc>>

\* the scheduler thread processes the due job: the run is submitted to the pool
\* and update_prices_with_context starts, unless max_instances are running
SchedSubmit(w) ==
  /\ now >= nextRun
  /\ Cardinality(Running) < MaxInstances
  /\ proc[w].pc = "idle"
  /\ Room(Len(seed))
  /\ proc' = [proc EXCEPT ![w] = UpdateBegin(w)]
  /\ execs' = execs + 1
  /\ nextRun' = NextFireTime(RunTime)
  /\ UNCHANGED <<outerVars, now, seed, log, skipped, failed, completed, lastWritten, hist,
                 streak, calc>>

\* the due run is skipped: "maximum number of running instances reached"
SchedSkip ==
  /\ now >= nextRun
  /\ Cardinality(Running) >= MaxInstances
  /\ skipped' = skipped + 1
  /\ nextRun' = NextFireTime(RunTime)
  /\ UNCHANGED <<outerVars, now, seed, log, proc, execs, failed, completed, lastWritten,
                 hist, streak, calc>>

(* --------------------------- specification ---------------------------- *)
Init ==
  /\ now = 0
  /\ seed = <<>>
  /\ log = <<>>
  /\ proc = [p \in Procs |-> Idle(NoReturn, 0)]
  /\ nextRun = IntervalSeconds
  /\ execs = 0
  /\ skipped = 0
  /\ failed = "never"
  /\ completed = [s \in SeedIds |-> 0]
  /\ lastWritten = <<>>
  /\ calc = NoCalc
  /\ hist = NoCall
  /\ streak = NoStreak
  /\ summary = NoSummary
  /\ users = <<>>
  /\ reg = [q \in Clients |-> Answered(NoData, 0)]
  /\ resp = NoResp
  /\ conns = 0

JsonPrice == {NoPrice} \cup {<<x>> : x \in JsonPrices}

\* no update_seed_prices activation is in progress
Quiet == \A p \in Procs : proc[p].pc = "idle"

\* seed creation and the price history route, with the clock in days
Next ==
  \/ \E d \in LongSteps : Advance(d)
  \/ \E p \in JsonPrice, q \in JsonQuantities : create_seed(p, q)
  \/ \E id \in AnyIds, tf \in Timeframes, fault \in Faults :
       get_seed_prices(id, tf, fault)

Spec == Init /\ [][Next]_vars

\* seed CRUD and manual price updates, served one request at a time
NextUpdate ==
  \/ Quiet /\ \E d \in LongSteps : Advance(d)
  \/ Quiet /\ \E p \in JsonPrice, q \in JsonQuantities : create_seed(p, q)
  \/ Quiet /\ \E id \in AnyIds, p \in JsonPrice,
                  q \in {<<>>} \cup {<<x>> : x \in JsonQuantities} :
                update_seed(id, p, q)
  \/ \E r \in Requests : update_market(r)
  \/ \E r \in Requests : update_loop(r)
  \/ \E r \in Requests : update_commit(r)
  \/ \E r \in Requests : update_raise(r)

UpdateSpec == Init /\ [][NextUpdate]_vars

\* the scheduler, its pool threads and a manual trigger, over a seeded table
NextSched ==
  \/ Advance(IntervalSeconds)
  \/ \E q \in JsonQuantities : create_seed(NoPrice, q)
  \/ \E r \in Requests : update_market(r)
  \/ \E w \in Workers : SchedSubmit(w)
  \/ SchedSkip
  \/ \E p \in Procs : update_loop(p)
  \/ \E p \in Procs : update_commit(p)
  \/ \E p \in Procs : update_raise(p)

SchedSpec == Init /\ [][NextSched]_vars
\* a table holding one seed created by POST /seeds with a price, and a call
\* of calculate_price_change about to be made
InitPrice ==
  /\ now = 0
  /\ proc = [p \in Procs |-> Idle(NoReturn, 0)]
  /\ nextRun = IntervalSeconds
  /\ execs = 0
  /\ skipped = 0
  /\ failed = "never"
  /\ completed = [s \in SeedIds |-> 0]
  /\ hist = NoCall
  /\ streak = NoStreak
  /\ summary = NoSummary
  /\ users = <<>>
  /\ reg = [q \in Clients |-> Answered(NoData, 0)]
  /\ resp = NoResp
  /\ conns = 0
  /\ \E price \in PriorPrices :
       /\ seed = <<[price |-> <<price>>, quantity |-> 100]>>
       /\ lastWritten = seed
       /\ log = <<SeedPrice(1, 1, price, 100, 0, "crud")>>
  /\ \E current_price \in CalcPrices, trend \in Trends, roll \in CalcRolls :
       calc = [current_price |-> current_price, trend |-> trend, roll |-> roll,
               done |-> FALSE, result |-> 0]

\* the pricing engine called directly and through manual updates
NextPrice ==
  \/ price_change
  \/ Quiet /\ \E id \in AnyIds : update_seed(id, <<0>>, <<>>)
  \/ \E r \in Requests : update_market(r)
  \/ \E r \in Requests : update_loop(r)
  \/ \E r \in Requests : update_commit(r)
  \/ get_market_summary

PriceSpec == InitPrice /\ [][NextPrice]_vars

\* concurrent registrations
NextAuth ==
  \/ \E q \in Clients, username \in Usernames, email \in Emails, password \in Passwords :
       register(q, [username |-> username, email |-> email, password |-> password])
  \/ \E q \in Clients : register_email(q)
  \/ \E q \in Clients, fault \in BOOLEAN : register_commit(q, fault)

AuthSpec == Init /\ [][NextAuth]_vars

\* datetime.now() is later than the recorded_at of every committed row: the
\* clock has moved since the last commit
Fresh == \A i \in DOMAIN log : log[i].recorded_at < now

\* a scheduled tick and a manual update that may overlap; a clock reading made
\* after a commit is later than the rows of that commit, two readings made
\* by overlapping executions before either commit may be equal
NextConc ==
  \/ Advance(IntervalSeconds)
  \/ Quiet /\ Fresh /\ \E p \in JsonPrice, q \in JsonQuantities : create_seed(p, q)
  \/ Fresh /\ \E r \in Requests : update_market(r)
  \/ Fresh /\ \E w \in Workers : SchedSubmit(w)
  \/ SchedSkip
  \/ Fresh /\ \E p \in Procs : update_loop(p)
  \/ \E p \in Procs : update_commit(p)
  \/ \E p \in Procs : update_raise(p)

ConcSpec == Init /\ [][NextConc]_vars

\* seed CRUD, price history and manual updates served one after the other,
\* every request reading a clock that has moved since the last commit
NextSeq ==
  \/ Quiet /\ Advance(IntervalSeconds)
  \/ Quiet /\ Fresh /\ \E p \in JsonPrice, q \in JsonQuantities : create_seed(p, q)
  \/ Quiet /\ Fresh /\ \E id \in AnyIds, p \in JsonPrice : update_seed(id, p, <<>>)
  \/ Quiet /\ Fresh /\ \E id \in AnyIds, tf \in Timeframes : get_seed_prices(id, tf, "none")
  \/ Quiet /\ Fresh /\ \E r \in Requests : update_market(r)
  \/ Fresh /\ \E r \in Requests : update_loop(r)
  \/ \E r \in Requests : update_commit(r)
  \/ \E r \in Requests : update_raise(r)

SeqSpec == Init /\ [][NextSeq]_vars

\* the two operations that open a connection of their own
NextConn ==
  \/ \E p \in JsonPrice, q \in JsonQuantities : create_seed(p, q)
  \/ \E id \in AnyIds, tf \in Timeframes, fault \in Faults :
       get_seed_prices(id, tf, fault)
  \/ \E id \in AnyIds, fault \in DirectFaults : get_price_history(id, fault)

ConnSpec == Init /\ [][NextConn]_vars

\* requests to every route with exceptions raised, next to registrations
NextRoute ==
  \/ NextAuth
  \/ \E route \in Routes, raised \in Raised : raises(route, raised)

RouteSpec == Init /\ [][NextRoute]_vars

(* ------------------------------ claims -------------------------------- *)
UpdateRows(s) == {r \in RowsOf(log, s) : r.by = "update"}

\* C1: update_seed_prices run N times in sequence appends exactly N rows to
\* the log of every seed that existed before the first run, one per run,
\* whether or not the seed had a row before; each run returns the number of
\* seeds it read.
C1_RunsAppendOnePerSeed ==
  /\ \A s \in DOMAIN seed : Cardinality(UpdateRows(s)) = completed[s]
  /\ \A p \in Procs : proc[p].ret.status = "ok" => proc[p].ret.updates = proc[p].snap

\* two runs have completed for a seed that had no row before the first
C1_Witness ==
  \E s \in DOMAIN seed :
    /\ completed[s] = 2
    /\ RowsOf(log, s) = UpdateRows(s)
    /\ \E p \in Procs : proc[p].ret.status = "ok" /\ proc[p].ret.updates >= 1

\* C9: update_seed_prices leaves every field of every seed row unchanged:
\* seed.price still is the value last written by POST/PUT /seeds, even though
\* the latest row of the seed carries another price.
C9_SeedRowsUntouched == seed = lastWritten

\* a seed with a stored price whose latest row, written by an update, differs
C9_Witness ==
  \E s \in DOMAIN seed :
    /\ completed[s] >= 1
    /\ seed[s].price # NoPrice
    /\ \E r \in LatestRows(log, s) : r.by = "update" /\ r.price # seed[s].price[1]

Earlier(i) == {j \in 1..(i - 1) : log[j].seed_id = log[i].seed_id}

\* C10: for every previous price p > 0 calculate_price_change(p) is at least
\* 0.20 and a whole number of cents; so every row update_seed_prices appends
\* for a seed that already had a row has a price of at least 0.20.
C10_FloorAndCents ==
  /\ (calc.done /\ calc.current_price > 0) =>
       (calc.result >= PriceFloor /\ calc.result % Cent = 0)
  /\ \A i \in DOMAIN log :
       (log[i].by = "update" /\ Earlier(i) # {}) =>
         (log[i].price >= PriceFloor /\ log[i].price % Cent = 0)

\* the floor has acted, in a direct call and in an update after a negative price
C10_Witness ==
  /\ calc.done /\ calc.current_price > 0 /\ calc.current_price < PriceFloor
  /\ calc.result = PriceFloor
  /\ \E i \in DOMAIN log :
       /\ log[i].by = "update" /\ log[i].price = PriceFloor
       /\ \E j \in Earlier(i) : log[j].price < 0

Days(n) == n * DaySeconds

NonDecreasing(rows) ==
  \A i, j \in DOMAIN rows : i < j => rows[i].recorded_at <= rows[j].recorded_at

\* C2: for an existing seed every non-empty result of the price history for
\* "1w", on every return path including the fallback query, holds only rows of
\* that seed recorded at or after now - 7 days, in non-decreasing time order.
C2_WeekWindowOnEveryPath ==
  (hist.path # "none" /\ hist.timeframe = "1w" /\ hist.seed_id \in DOMAIN seed
     /\ hist.result # <<>>) =>
    /\ \A i \in DOMAIN hist.result :
         /\ hist.result[i].seed_id = hist.seed_id
         /\ hist.result[i].recorded_at >= now - Days(7)
    /\ NonDecreasing(hist.result)

\* the call found no row of an existing seed and no storage call failed
HealedCall ==
  /\ hist.path \in {"found", "placeholder"}
  /\ hist.seed_id \in DOMAIN seed
  /\ hist.pre = 0

\* the one row the call returns is in the log, made now with a volume in
\* [500, 1000], and the same call made again would find a row
HealedAndPersisted ==
  /\ Len(hist.result) = 1
  /\ hist.result[1].seed_id = hist.seed_id
  /\ hist.result[1].volume >= 500 /\ hist.result[1].volume <= 1000
  /\ hist.result[1].recorded_at = now
  /\ RowsOf(log, hist.seed_id) = {hist.result[1]}
  /\ PrimaryQuery(hist.seed_id, now - Days(TimeframeDays(hist.timeframe))) # {<<>>}

BasePriceRange == {x \in 1000..6000 : x % Cent = 0}

C4_AtMostOnePlaceholder == streak.added <= 1

\* C5: the price history of a seed id that does not exist is the empty list,
\* answered 200, and leaves the seed table and the log unchanged.
C5_MissingSeedEmptyAndUntouched ==
  [][(hist'.path # "none" /\ hist'.seed_id \notin DOMAIN seed) =>
       (hist'.result = <<>> /\ hist'.status = 200 /\ log' = log /\ seed' = seed)]_vars

\* a call for a missing id was answered while the tables hold a seed and a row
C5_Witness == hist.path = "missing" /\ seed # <<>> /\ log # <<>>

InProgress == {p \in Procs : proc[p].pc # "idle"}

\* C6 as stated: at most one execution of update_seed_prices is in progress
\* at any time, over scheduled ticks and POST /market/update requests alike.
C6_OneExecutionSystemWide == Cardinality(InProgress) <= 1

\* C6 as amended: at most one scheduled execution is in progress at any time;
\* manual requests are not counted by the scheduler and may overlap with it.
C6_OneScheduledExecution == Cardinality(Running) <= MaxInstances

\* a scheduled execution and a manual one are in progress together
C6_Witness == Running # {} /\ proc["r1"].pc = "run" /\ now >= nextRun

\* a step in which the scheduler has processed the due job
Processed == execs' # execs \/ skipped' # skipped

\* C7: the ticks that fell due during an execution are dropped, not queued:
\* processing the due job leaves no tick due, so one execution at most is
\* started for all the missed ticks, and executions plus dropped ticks never
\* exceed the number of elapsed intervals.
C7_MissedTicksCoalesced ==
  [][/\ Processed => (nextRun' > now' /\ execs' + skipped' <= execs + skipped + 1)
     /\ execs' + skipped' <= now' \div IntervalSeconds]_vars

\* a tick was dropped during an overrun and a later execution has started
C7_Witness ==
  /\ skipped >= 1
  /\ execs >= 2
  /\ Running # {}

\* a step in which the scheduled job of worker w ends with an error
Raises(w) ==
  /\ proc[w].pc = "run"
  /\ proc'[w].pc = "idle"
  /\ proc'[w].ret.status = "error"

\* C8: a scheduled tick whose update raises writes nothing and leaves the
\* scheduler as it was; the rows of each seed are those of the completed runs
\* only, one per run, so a later tick appends as if the failure had not been.
C8_FailedTickIsolated ==
  [][/\ \A w \in Workers :
          Raises(w) => /\ log' = log
                       /\ seed' = seed
                       /\ nextRun' = nextRun
                       /\ execs' = execs /\ skipped' = skipped
                       /\ \A p \in Procs \ {w} : proc'[p] = proc[p]
     /\ \A s \in DOMAIN seed' :
          Cardinality({r \in RowsOf(log', s) : r.by = "update"}) = completed'[s]]_vars

\* a scheduled tick failed after building rows and a later tick has committed
C8_Witness ==
  /\ failed = "recovered"
  /\ \E s \in DOMAIN seed : completed[s] = 1 /\ Cardinality(UpdateRows(s)) = 1
  /\ execs >= 2

\* C11: in the market summary every seed with exactly one row ever recorded
\* is listed with change = 0 and changePercent = 0, the previous price being
\* the latest one, whatever the price of that row, zero and negative included.
C11_SingleObservationNoChange ==
  \A s \in DOMAIN summary :
    summary[s].observations = 1 =>
      /\ summary[s].change = 0
      /\ summary[s].changePercent = 0
      /\ summary[s].previousPrice = summary[s].currentPrice

\* a summary listing a seed whose only row has a negative price
C11_Witness ==
  \E s \in DOMAIN summary :
    /\ summary[s].observations = 1
    /\ summary[s].currentPrice < 0
    /\ summary[s].change = 0

\* a step in which client q sends a registration whose username is taken
SendsTaken(q) ==
  /\ reg[q].pc = "idle"
  /\ reg'[q] # reg[q]
  /\ reg'[q].data.username # ""
  /\ \E i \in DOMAIN users : users[i].username = reg'[q].data.username

\* C12: a registration whose username is already taken is answered 400 and
\* leaves the user table unchanged; under any interleaving of registrations
\* the user table holds at most one row per username.
C12_DuplicateUsernameRejected ==
  [][/\ \A q \in Clients :
          SendsTaken(q) => (reg'[q].pc = "idle" /\ reg'[q].status = 400 /\ users' = users)
     /\ \A i, j \in DOMAIN users' :
          users'[i].username = users'[j].username => i = j]_vars

\* two registrations of one username passed the tests together: one was
\* created and the other refused, and a later one was answered 400
C12_Witness ==
  /\ Len(users) = 1
  /\ reg["q1"].status = 500 /\ reg["q1"].data.username = users[1].username
  /\ reg["q1"].data.email # users[1].email
  /\ reg["q2"].status = 400 /\ reg["q2"].data.username = users[1].username
  /\ reg["q2"].data.email # "" /\ reg["q2"].data.password # ""

\* C13: every route handler catches every exception raised while it runs, a
\* storage failure or a malformed body included, and answers with the JSON
\* error envelope; no exception leaves a handler.
C13_EveryHandlerCatches ==
  resp.route # "" => (resp.status >= 400 /\ resp.body = "error")

\* the rows of each seed carry distinct timestamps
TotallyOrdered(l) ==
  \A i, j \in DOMAIN l :
    (l[i].seed_id = l[j].seed_id /\ l[i].recorded_at = l[j].recorded_at) => i = j

\* no stored row is modified or removed
AppendOnly == Len(log') >= Len(log) /\ SubSeq(log', 1, Len(log)) = log

\* C14: when a scheduled tick and a manual update overlap, in any
\* interleaving of their reads and batch writes, every seed both have read
\* gets one new row per execution, no stored row is modified or removed, and
\* the rows of each seed stay totally ordered by recorded timestamp.
C14_OverlapKeepsLogInvariants ==
  [][/\ AppendOnly
     /\ \A s \in DOMAIN seed' :
          Cardinality({r \in RowsOf(log', s) : r.by = "update"}) = completed'[s]
     /\ TotallyOrdered(log')]_vars

\* the row of seed s appended last
LastAppended(l, s) ==
  {l[i] : i \in {j \in DOMAIN l : l[j].seed_id = s /\ \A k \in DOMAIN l :
                                     l[k].seed_id = s => k <= j}}

\* C15: after any sequence of seed creations, price updates by PUT, market
\* updates and price history calls, no two rows of a seed share a timestamp,
\* and the latest row of a seed by timestamp is unique and is the row
\* appended last.
C15_LatestIsLastAppended ==
  /\ TotallyOrdered(log)
  /\ \A s \in DOMAIN seed : LatestRows(log, s) = LastAppended(log, s)

\* a seed holding a placeholder, a row of a market update and a row of a PUT
C15_Witness ==
  \E s \in DOMAIN seed :
    /\ {r.by : r \in RowsOf(log, s)} = {"placeholder", "update", "crud"}
    /\ \E r \in LatestRows(log, s) : r.by = "crud" /\ r.id = Len(log)

\* the latest row of seed s exists and carries the stored price of the seed
InSync(seeds, l, s) ==
  /\ LatestRows(l, s) # {}
  /\ \A r \in LatestRows(l, s) : seeds[s].price = <<r.price>>

\* a step of POST /seeds whose body carries a price
Posted == Len(seed') = Len(seed) + 1 /\ seed'[Len(seed')].price # NoPrice

\* a step of PUT /seeds/s whose body carries a price other than the stored one
PutChanged(s) ==
  /\ Len(seed') = Len(seed)
  /\ seed'[s].price # seed[s].price
  /\ seed'[s].price # NoPrice

\* a PUT /seeds/s carrying the price the seed has can be served now: it
\* leaves the tables as they are
PutSame(s) == Quiet /\ seed[s].price # NoPrice

\* C16 as stated: right after a successful POST /seeds that carries a price,
\* and right after a successful PUT /seeds/{id} that carries a price, the
\* latest row of the seed exists and its price is the stored price.
C16_CrudKeepsInSync ==
  [][/\ Posted => InSync(seed', log', Len(seed'))
     /\ \A s \in DOMAIN seed : PutChanged(s) => InSync(seed', log', s)
     /\ \A s \in DOMAIN seed : PutSame(s) => InSync(seed, log, s)]_vars

\* C16 as amended: the same after a POST that carries a price other than
\* zero and after a PUT that carries a price other than the stored one.
C16_PriceWritesKeepInSync ==
  [][/\ (Posted /\ seed'[Len(seed')].price # <<0>>) => InSync(seed', log', Len(seed'))
     /\ \A s \in DOMAIN seed : PutChanged(s) => InSync(seed', log', s)]_vars

\* a PUT has just replaced the price of a seed whose latest row came from a
\* market update, and a POST has created another seed with its first row
C16_Witness ==
  /\ Len(seed) = 2
  /\ InSync(seed, log, 2) /\ InSync(seed, log, 1)
  /\ \E r \in RowsOf(log, 1) : r.by = "update"
  /\ \E r \in LatestRows(log, 1) : r.by = "crud" /\ r.id = Len(log)

\* C17: every direct connection an operation has opened is closed when the
\* operation returns, on every exit path: after the fallback query of the
\* price history or the handler of GET /api/price-history/{id} has returned,
\* normally, with 404 or after a query raised, none is open.
C17_ConnectionsReleased == conns = 0
====
